---- MODULE Spec2Model ----
(***************************************************************************)
(* Hybrid A* planner of ref_hybrid_a_star/my_hybrid_astar.py as a state    *)
(* machine: the holonomic Dijkstra (one loop iteration per step), then the *)
(* lattice search with analytic expansion (one loop iteration per step).   *)
(*                                                                         *)
(* Units.  Lengths are integers in units of 0.1 m (XY_RESO = MOVE_STEP = 2,*)
(* RF = 6, ...).  Angles are integers in eighths of a turn (PI = 4); only  *)
(* headings that are multiples of a quarter turn occur, so cos and sin are *)
(* exact.  Costs are fixed point with three decimals (1.0 = 1000, and      *)
(* hypot(1,1) = 1414).  np.inf is the sentinel Inf.  The steering commands *)
(* are -1, 0 and 1 (N_STEER = 1); one MOVE_STEP at full steer turns the    *)
(* heading by a quarter turn.                                              *)
(***************************************************************************)
EXTENDS Integers, Sequences, FiniteSets, TLC

VARIABLES
    inp,            \* arguments of hybrid_astar_planning
    pc,             \* "holonomic" | "search" | "done"
    h_open_set,     \* open_set of calc_holonomic_heuristic_with_obstacle
    h_closed_set,   \* closed_set of calc_holonomic_heuristic_with_obstacle
    q_priority,     \* heapq list of (cost, ind) pairs
    hmap,           \* result of the holonomic heuristic
    open_set,       \* open_set of hybrid_astar_planning
    closed_set,     \* closed_set of hybrid_astar_planning
    qp,             \* QueuePrior: the heap of <<priority, key>> entries
    ind,            \* key popped by the latest iteration (-1 before the first)
    result,         \* what the call produced so far
    twin            \* record of an earlier call on the same arguments

vars == <<inp, pc, h_open_set, h_closed_set, q_priority, hmap,
          open_set, closed_set, qp, ind, result, twin>>

----------------------------------------------------------------------------
(* class C: parameter config *)

PI == 4
XY_RESO == 2
MOVE_STEP == 2
N_STEER == 1
MAX_ANGULAR_VELOCITY == 1
MIN_ANGULAR_VELOCITY == -1
COLLISION_CHECK_STEP == 2
GEAR_COST == 100
BACKWARD_COST == 50
ANGULAR_VELOCITY_CHANGE_COST == 2
H_COST == 10
RADIUS == 4
RF == 6
RB == 2
W == 6
Inf == 1000000000

----------------------------------------------------------------------------
(* arithmetic of the host language *)

Abs(a) == IF a < 0 THEN -a ELSE a

Max2(a, b) == IF a >= b THEN a ELSE b

SetMin(S) == CHOOSE m \in S : \A o \in S : m <= o

SetMax(S) == CHOOSE m \in S : \A o \in S : m >= o

\* round(a / b) for b > 0: to the nearest integer, a tie to the even one
PyRound(a, b) ==
    LET q == a \div b
        r == a % b
    IN  IF 2 * r < b THEN q
        ELSE IF 2 * r > b THEN q + 1
        ELSE IF q % 2 = 0 THEN q ELSE q + 1

\* math.ceil(a / b) for b > 0
PyCeil(a, b) == -((-a) \div b)

\* cos and sin of a heading that is a multiple of a quarter turn
Cos(yaw) == CASE yaw % 8 = 0 -> 1 [] yaw % 8 = 4 -> -1 [] OTHER -> 0

Sin(yaw) == CASE yaw % 8 = 2 -> 1 [] yaw % 8 = 6 -> -1 [] OTHER -> 0

\* list[i] of a list of length n: a negative i counts from the end
PyIndexOk(i, n) == -n <= i /\ i < n

PyIndex(i, n) == IF i < 0 THEN i + n ELSE i

\* seq[::-1]
Reverse(s) == [i \in 1..Len(s) |-> s[Len(s) + 1 - i]]

\* seq[1:-1]
Interior(s) == IF Len(s) <= 2 THEN << >> ELSE SubSeq(s, 2, Len(s) - 1)

\* [seq[k] for k in range(0, len(seq), step)]
EveryKth(s, step) ==
    [i \in 1..PyCeil(Len(s), step) |-> s[(i - 1) * step + 1]]

\* fixed-point value of a cost given in whole units
Fixed(c) == c * 1000

\* rs.pi_2_pi: the angle brought into (-PI, PI]
pi_2_pi(theta) ==
    LET m == theta % (2 * PI)
    IN  IF m > PI THEN m - 2 * PI ELSE m

----------------------------------------------------------------------------
(* spatial parameters *)

calc_parameters(ox_grid_oy_grid, xyreso, yawreso) ==
    LET oxs == {p[1] : p \in ox_grid_oy_grid}
        oys == {p[2] : p \in ox_grid_oy_grid}
        minx == SetMin(oxs)
        miny == SetMin(oys)
        maxx == SetMax(oxs)
        maxy == SetMax(oys)
    IN  [minx |-> minx, miny |-> miny,
         minyaw |-> PyRound(-PI, yawreso) - 1,
         maxx |-> maxx, maxy |-> maxy,
         maxyaw |-> PyRound(PI, yawreso),
         xw |-> maxx - minx, yw |-> maxy - miny,
         yaww |-> PyRound(PI, yawreso) - (PyRound(-PI, yawreso) - 1),
         xyreso |-> xyreso, yawreso |-> yawreso,
         obst |-> {<<p[1] * xyreso, p[2] * xyreso>> : p \in ox_grid_oy_grid}]

get_motion ==
    << <<-1, 0>>, <<-1, 1>>, <<0, 1>>, <<1, 1>>,
       <<1, 0>>, <<1, -1>>, <<0, -1>>, <<-1, -1>> >>

\* math.hypot(u[0], u[1]) of a grid motion
u_cost(u) == IF u[1] = 0 \/ u[2] = 0 THEN 1000 ELSE 1414

\* obsmap[x][y]: some obstacle grid point lies within rr / xyreso of the cell
obstacles_map(P, rr) ==
    [x \in 0..(P.xw - 1) |->
        [y \in 0..(P.yw - 1) |->
            \E o \in P.obst :
                LET oxx == PyRound(o[1], P.xyreso)
                    oyy == PyRound(o[2], P.xyreso)
                    dx == oxx - (x + P.minx)
                    dy == oyy - (y + P.miny)
                IN  (dx * dx + dy * dy) * P.xyreso * P.xyreso <= rr * rr]]

calc_holonomic_index(node, P) == (node.y - P.miny) * P.xw + (node.x - P.minx)

\* check_holonomic_node with the obstacle test inverted
check_holonomic_node_inverted(node, P, obsmap) ==
    IF node.x <= P.minx \/ node.x >= P.maxx \/
       node.y <= P.miny \/ node.y >= P.maxy
    THEN FALSE
    ELSE obsmap[node.x - P.minx][node.y - P.miny]

check_holonomic_node(node, P, obsmap) ==
    IF node.x <= P.minx \/ node.x >= P.maxx \/
       node.y <= P.miny \/ node.y >= P.maxy
    THEN FALSE
    ELSE ~obsmap[node.x - P.minx][node.y - P.miny]

----------------------------------------------------------------------------
(* dict and heap helpers *)

DictPut(d, k, v) == [x \in (DOMAIN d) \cup {k} |-> IF x = k THEN v ELSE d[x]]

DictPop(d, k) == [x \in (DOMAIN d) \ {k} |-> d[x]]

EmptyDict == << >>

\* smallest tuple of a heapq list of (cost, ind) pairs
HeapMin(q) ==
    CHOOSE e \in q : \A o \in q :
        e[1] < o[1] \/ (e[1] = o[1] /\ e[2] <= o[2])

----------------------------------------------------------------------------
(* calc_holonomic_heuristic_with_obstacle *)

HolonomicNode(x, y, cost, pind) == [x |-> x, y |-> y, cost |-> cost, pind |-> pind]

\* n_goal of the Dijkstra, from the goal node of the planner
HolonomicGoal(gx, gy, P) ==
    HolonomicNode(PyRound(gx, P.xyreso), PyRound(gy, P.xyreso), 0, -1)

\* state before the loop: the goal in the open set and on the heap
HolonomicInit(n_goal, P) ==
    [open |-> DictPut(EmptyDict, calc_holonomic_index(n_goal, P), n_goal),
     closed |-> EmptyDict,
     q |-> {<<n_goal.cost, calc_holonomic_index(n_goal, P)>>}]

\* the loop body without the update of a cell that is already open
HolonomicRelaxOneFirstCost(st, n_curr, c_ind, i, P, obsmap) ==
    LET node == HolonomicNode(n_curr.x + get_motion[i][1],
                              n_curr.y + get_motion[i][2],
                              n_curr.cost + u_cost(get_motion[i]), c_ind)
        n_ind == calc_holonomic_index(node, P)
    IN  IF ~check_holonomic_node(node, P, obsmap) THEN st
        ELSE IF n_ind \in DOMAIN st.closed THEN st
        ELSE IF n_ind \in DOMAIN st.open THEN st
        ELSE [st EXCEPT !.open = DictPut(st.open, n_ind, node),
                        !.q = st.q \cup {<<node.cost, n_ind>>}]

\* body of the for loop for motion[i]
HolonomicRelaxOne(st, n_curr, c_ind, i, P, obsmap) ==
    LET node == HolonomicNode(n_curr.x + get_motion[i][1],
                              n_curr.y + get_motion[i][2],
                              n_curr.cost + u_cost(get_motion[i]), c_ind)
        n_ind == calc_holonomic_index(node, P)
    IN  IF ~check_holonomic_node(node, P, obsmap) THEN st
        ELSE IF n_ind \in DOMAIN st.closed THEN st
        ELSE IF n_ind \in DOMAIN st.open
             THEN IF st.open[n_ind].cost > node.cost
                  THEN [st EXCEPT !.open[n_ind].cost = node.cost,
                                  !.open[n_ind].pind = c_ind]
                  ELSE st
             ELSE [st EXCEPT !.open = DictPut(st.open, n_ind, node),
                             !.q = st.q \cup {<<node.cost, n_ind>>}]

RECURSIVE HolonomicRelax(_, _, _, _, _, _)
HolonomicRelax(st, n_curr, c_ind, i, P, obsmap) ==
    IF i > Len(get_motion) THEN st
    ELSE HolonomicRelax(HolonomicRelaxOne(st, n_curr, c_ind, i, P, obsmap),
                        n_curr, c_ind, i + 1, P, obsmap)

\* one iteration of the while loop, the open set being non-empty
HolonomicIteration(st, P, obsmap) ==
    LET e == HeapMin(st.q)
        c_ind == e[2]
        n_curr == st.open[c_ind]
        popped == [open |-> DictPop(st.open, c_ind),
                   closed |-> DictPut(st.closed, c_ind, n_curr),
                   q |-> st.q \ {e}]
    IN  HolonomicRelax(popped, n_curr, c_ind, 1, P, obsmap)

\* the hmap assignments raise IndexError for some closed node
HmapIndexError(closed, P) ==
    \E k \in DOMAIN closed :
        ~PyIndexOk(closed[k].x - P.minx, P.xw) \/
        ~PyIndexOk(closed[k].y - P.miny, P.yw)

\* hmap after the assignment loop over closed_set.values()
HmapOf(closed, P) ==
    [x \in 0..(P.xw - 1) |->
        [y \in 0..(P.yw - 1) |->
            LET hit == {k \in DOMAIN closed :
                            /\ PyIndex(closed[k].x - P.minx, P.xw) = x
                            /\ PyIndex(closed[k].y - P.miny, P.yw) = y}
            IN  IF hit = {} THEN Inf
                ELSE closed[CHOOSE k \in hit : TRUE].cost]]

RECURSIVE HolonomicLoop(_, _, _)
HolonomicLoop(st, P, obsmap) ==
    IF DOMAIN st.open = {} THEN st
    ELSE HolonomicLoop(HolonomicIteration(st, P, obsmap), P, obsmap)

\* the whole function on a goal cell: the closed set it ends with
calc_holonomic_heuristic_with_obstacle(gx, gy, P, radius) ==
    HolonomicLoop(HolonomicInit(HolonomicGoal(gx, gy, P), P), P,
                  obstacles_map(P, radius)).closed

----------------------------------------------------------------------------
(* nodes, keys and costs of the lattice search *)

Node(xind, yind, yawind, direction, x, y, yaw, directions, steer, cost, pind) ==
    [xind |-> xind, yind |-> yind, yawind |-> yawind, direction |-> direction,
     x |-> x, y |-> y, yaw |-> yaw, directions |-> directions,
     steer |-> steer, cost |-> cost, pind |-> pind]

Last(s) == s[Len(s)]

\* None
NoNode == [none |-> TRUE]

\* fixed-point cost of a length given in units of 0.1 m
Metres(l) == l * 100

\* calc_index with the row term scaled by yw
calc_index_row_by_yw(node, P) ==
    (node.yawind - P.minyaw) * P.xw * P.yw +
    (node.yind - P.miny) * P.yw +
    (node.xind - P.minx)

calc_index(node, P) ==
    (node.yawind - P.minyaw) * P.xw * P.yw +
    (node.yind - P.miny) * P.xw +
    (node.xind - P.minx)

is_same_grid(node1, node2) ==
    ~(node1.xind # node2.xind \/ node1.yind # node2.yind \/
      node1.yawind # node2.yawind)

\* hmap[node.xind - P.minx][node.yind - P.miny] raises IndexError
HybridCostIndexError(node, P) ==
    ~PyIndexOk(node.xind - P.minx, P.xw) \/ ~PyIndexOk(node.yind - P.miny, P.yw)

calc_hybrid_cost(node, hm, P) ==
    LET h == hm[PyIndex(node.xind - P.minx, P.xw)][PyIndex(node.yind - P.miny, P.yw)]
    IN  IF h = Inf THEN Inf ELSE node.cost + H_COST * h

\* np.arange(MIN, MAX, (MAX - MIN) / N_STEER)
angular_velocities ==
    [k \in 1..N_STEER |->
        MIN_ANGULAR_VELOCITY +
        (k - 1) * ((MAX_ANGULAR_VELOCITY - MIN_ANGULAR_VELOCITY) \div N_STEER)]

\* calc_motion_set: <<steer_set, direc_set>>
calc_motion_set ==
    LET steer == angular_velocities \o <<0>> \o
                 [k \in 1..N_STEER |-> -angular_velocities[k]]
        direc == [k \in 1..Len(steer) |-> 1] \o [k \in 1..Len(steer) |-> -1]
    IN  <<steer \o steer, direc>>

\* one pose collides: an obstacle point in the ball of radius r around the
\* footprint centre lies inside the box (all lengths doubled to stay integral)
PoseCollides(ix, iy, iyaw, P) ==
    LET car_length == RF + RB
        safety_margin == P.xyreso
        r2 == Max2(car_length, W) + 2 * safety_margin
        cx2 == 2 * ix + (RF - RB) * Cos(iyaw)
        cy2 == 2 * iy + (RF - RB) * Sin(iyaw)
    IN  \E o \in P.obst :
            LET xo2 == 2 * o[1] - cx2
                yo2 == 2 * o[2] - cy2
                dx2 == xo2 * Cos(iyaw) + yo2 * Sin(iyaw)
                dy2 == -xo2 * Sin(iyaw) + yo2 * Cos(iyaw)
            IN  /\ xo2 * xo2 + yo2 * yo2 <= r2 * r2
                /\ Abs(dx2) < r2
                /\ Abs(dy2) < W + 2 * safety_margin

MinLen3(a, b, c) ==
    LET m == IF Len(a) <= Len(b) THEN Len(a) ELSE Len(b)
    IN  IF m <= Len(c) THEN m ELSE Len(c)

is_collision(x, y, yaw, P) ==
    \E i \in 1..MinLen3(x, y, yaw) : PoseCollides(x[i], y[i], yaw[i], P)

\* is_index_ok that accepts the border cells of the grid
is_index_ok_border(xind, yind, xlist, ylist, yawlist, P) ==
    IF xind < P.minx \/ xind > P.maxx \/ yind < P.miny \/ yind > P.maxy
    THEN FALSE
    ELSE ~is_collision(EveryKth(xlist, COLLISION_CHECK_STEP),
                       EveryKth(ylist, COLLISION_CHECK_STEP),
                       EveryKth(yawlist, COLLISION_CHECK_STEP), P)

is_index_ok(xind, yind, xlist, ylist, yawlist, P) ==
    IF xind <= P.minx \/ xind >= P.maxx \/ yind <= P.miny \/ yind >= P.maxy
    THEN FALSE
    ELSE ~is_collision(EveryKth(xlist, COLLISION_CHECK_STEP),
                       EveryKth(ylist, COLLISION_CHECK_STEP),
                       EveryKth(yawlist, COLLISION_CHECK_STEP), P)

\* xlist, ylist, yawlist of calc_next_node, grown to nlist samples
RECURSIVE Rollout(_, _, _, _)
Rollout(tr, u, d, nlist) ==
    IF Len(tr.x) >= nlist THEN tr
    ELSE Rollout([x |-> Append(tr.x, Last(tr.x) + d * MOVE_STEP * Cos(Last(tr.yaw))),
                  y |-> Append(tr.y, Last(tr.y) + d * MOVE_STEP * Sin(Last(tr.yaw))),
                  yaw |-> Append(tr.yaw, pi_2_pi(Last(tr.yaw) + d * MOVE_STEP * u))],
                 u, d, nlist)

\* the segment cost without the switch-back penalty
SegmentCostNoGear(n_curr, u, d) ==
    LET step == XY_RESO * 2
    IN  (IF d > 0 THEN Metres(Abs(step)) ELSE Metres(Abs(step)) * BACKWARD_COST)
        + Fixed(ANGULAR_VELOCITY_CHANGE_COST * Abs(n_curr.steer - u))

\* cost of one segment from n_curr under primitive (u, d)
SegmentCost(n_curr, u, d) ==
    LET step == XY_RESO * 2
        direction == IF d > 0 THEN 1 ELSE -1
    IN  (IF d > 0 THEN Metres(Abs(step)) ELSE Metres(Abs(step)) * BACKWARD_COST)
        + (IF direction # n_curr.direction THEN Fixed(GEAR_COST) ELSE 0)
        + Fixed(ANGULAR_VELOCITY_CHANGE_COST * Abs(n_curr.steer - u))

\* calc_next_node with a single direction entry for the whole segment
calc_next_node_one_direction(n_curr, c_id, u, d, P) ==
    LET step == XY_RESO * 2
        nlist == PyCeil(step, MOVE_STEP)
        first == [x |-> <<Last(n_curr.x) + d * MOVE_STEP * Cos(Last(n_curr.yaw))>>,
                  y |-> <<Last(n_curr.y) + d * MOVE_STEP * Sin(Last(n_curr.yaw))>>,
                  yaw |-> <<pi_2_pi(Last(n_curr.yaw) + d * MOVE_STEP * u)>>]
        tr == Rollout(first, u, d, nlist)
        xind == PyRound(Last(tr.x), P.xyreso)
        yind == PyRound(Last(tr.y), P.xyreso)
        yawind == PyRound(Last(tr.yaw), P.yawreso)
        direction == IF d > 0 THEN 1 ELSE -1
    IN  IF ~is_index_ok(xind, yind, tr.x, tr.y, tr.yaw, P) THEN NoNode
        ELSE Node(xind, yind, yawind, direction, tr.x, tr.y, tr.yaw,
                  <<direction>>, u,
                  n_curr.cost + SegmentCost(n_curr, u, d), c_id)

\* calc_next_node: the successor, or NoNode for None
calc_next_node(n_curr, c_id, u, d, P) ==
    LET step == XY_RESO * 2
        nlist == PyCeil(step, MOVE_STEP)
        first == [x |-> <<Last(n_curr.x) + d * MOVE_STEP * Cos(Last(n_curr.yaw))>>,
                  y |-> <<Last(n_curr.y) + d * MOVE_STEP * Sin(Last(n_curr.yaw))>>,
                  yaw |-> <<pi_2_pi(Last(n_curr.yaw) + d * MOVE_STEP * u)>>]
        tr == Rollout(first, u, d, nlist)
        xind == PyRound(Last(tr.x), P.xyreso)
        yind == PyRound(Last(tr.y), P.xyreso)
        yawind == PyRound(Last(tr.yaw), P.yawreso)
        direction == IF d > 0 THEN 1 ELSE -1
    IN  IF ~is_index_ok(xind, yind, tr.x, tr.y, tr.yaw, P) THEN NoNode
        ELSE Node(xind, yind, yawind, direction, tr.x, tr.y, tr.yaw,
                  [k \in 1..Len(tr.x) |-> direction], u,
                  n_curr.cost + SegmentCost(n_curr, u, d), c_id)

----------------------------------------------------------------------------
(* QueuePrior.  Its queue is a heapdict: a binary heap, here the sequence  *)
(* of <<priority, key>> entries in heap order (entry i has its children at *)
(* 2i and 2i+1), compared by priority alone.                               *)

HeapSwap(h, i, j) == [h EXCEPT ![i] = h[j], ![j] = h[i]]

\* sifting up that breaks ties of priority differently in a second call
RECURSIVE HeapDecreaseKeyPerRun(_, _)
HeapDecreaseKeyPerRun(h, i) ==
    IF i = 1 THEN h
    ELSE IF h[i \div 2][1] < h[i][1] THEN h
    ELSE IF twin.run = 2 /\ h[i \div 2][1] = h[i][1] THEN h
    ELSE HeapDecreaseKeyPerRun(HeapSwap(h, i, i \div 2), i \div 2)

\* sift entry i up while its parent is not of smaller priority
RECURSIVE HeapDecreaseKey(_, _)
HeapDecreaseKey(h, i) ==
    IF i = 1 THEN h
    ELSE IF h[i \div 2][1] < h[i][1] THEN h
    ELSE HeapDecreaseKey(HeapSwap(h, i, i \div 2), i \div 2)

\* sift entry i down below the smaller of its children
RECURSIVE HeapMinHeapify(_, _)
HeapMinHeapify(h, i) ==
    LET n == Len(h)
        l == 2 * i
        r == 2 * i + 1
        low1 == IF l <= n /\ h[l][1] < h[i][1] THEN l ELSE i
        low == IF r <= n /\ h[r][1] < h[low1][1] THEN r ELSE low1
    IN  IF low = i THEN h ELSE HeapMinHeapify(HeapSwap(h, i, low), low)

\* the heap after popitem()
HeapPopItem(h) ==
    IF Len(h) = 1 THEN << >>
    ELSE HeapMinHeapify([SubSeq(h, 1, Len(h) - 1) EXCEPT ![1] = h[Len(h)]], 1)

\* entry i swapped up to the root
RECURSIVE HeapToRoot(_, _)
HeapToRoot(h, i) ==
    IF i = 1 THEN h ELSE HeapToRoot(HeapSwap(h, i, i \div 2), i \div 2)

QueueKeys(queue) == {queue[i][2] : i \in 1..Len(queue)}

QueueEmpty(queue) == Len(queue) = 0

\* put that leaves the older entry of an item in the heap
QueuePutKeepOld(queue, item, priority) ==
    HeapDecreaseKey(Append(queue, <<priority, item>>), Len(queue) + 1)

\* put(item, priority): an item already queued is removed first
QueuePut(queue, item, priority) ==
    LET h == IF item \in QueueKeys(queue)
             THEN HeapPopItem(HeapToRoot(queue,
                      CHOOSE i \in 1..Len(queue) : queue[i][2] = item))
             ELSE queue
    IN  HeapDecreaseKey(Append(h, <<priority, item>>), Len(h) + 1)

\* get(): the item at the root of the heap
QueueGet(queue) == queue[1][2]

\* priority stored for an item
QueuePriority(queue, item) ==
    queue[CHOOSE i \in 1..Len(queue) : queue[i][2] = item][1]

----------------------------------------------------------------------------
(* Reeds-Shepp collaborator (rs.calc_all_paths), from its contract: a list *)
(* of paths, each with x, y, yaw, directions of one length and the signed  *)
(* lengths of its segments.  The candidates run from the start pose to the *)
(* goal pose along the two axis-parallel routes, sampled every MOVE_STEP.   *)

MaxRSPaths == 2

Sign(a) == IF a < 0 THEN -1 ELSE 1

\* coordinates after a up to and including b, MOVE_STEP apart
AxisSamples(a, b) ==
    LET n == PyCeil(Abs(b - a), MOVE_STEP)
    IN  [k \in 1..n |-> IF k = n THEN b ELSE a + Sign(b - a) * k * MOVE_STEP]

Const(n, v) == [k \in 1..n |-> v]

\* the candidate along x first (xfirst) or y first, with gears d1 and d2
RSPath(sx, sy, syaw, gx, gy, gyaw, xfirst, d1, d2) ==
    LET l1 == IF xfirst THEN AxisSamples(sx, gx) ELSE AxisSamples(sy, gy)
        l2 == IF xfirst THEN AxisSamples(sy, gy) ELSE AxisSamples(sx, gx)
        n1 == Len(l1)
        n2 == Len(l2)
        xs == IF xfirst THEN <<sx>> \o l1 \o Const(n2, gx)
                        ELSE <<sx>> \o Const(n1, sx) \o l2
        ys == IF xfirst THEN <<sy>> \o Const(n1, sy) \o l2
                        ELSE <<sy>> \o l1 \o Const(n2, gy)
        yaws == <<pi_2_pi(syaw)>> \o Const(n1, pi_2_pi(syaw)) \o Const(n2, pi_2_pi(gyaw))
        ds == <<d1>> \o Const(n1, d1) \o Const(n2, d2)
        closing == n1 + n2 = 0
    IN  [x |-> IF closing THEN xs \o <<gx>> ELSE xs,
         y |-> IF closing THEN ys \o <<gy>> ELSE ys,
         yaw |-> IF closing THEN yaws \o <<pi_2_pi(gyaw)>>
                 ELSE [k \in 1..Len(yaws) |-> IF k = Len(yaws) THEN pi_2_pi(gyaw) ELSE yaws[k]],
         directions |-> IF closing THEN ds \o <<d1>> ELSE ds,
         lengths |-> IF xfirst THEN <<d1 * Abs(gx - sx), d2 * Abs(gy - sy)>>
                     ELSE <<d1 * Abs(gy - sy), d2 * Abs(gx - sx)>>]

\* both routes driven forward, and the x-first route begun in reverse
RSCandidates(sx, sy, syaw, gx, gy, gyaw) ==
    {RSPath(sx, sy, syaw, gx, gy, gyaw, TRUE, 1, 1),
     RSPath(sx, sy, syaw, gx, gy, gyaw, FALSE, 1, 1),
     RSPath(sx, sy, syaw, gx, gy, gyaw, TRUE, -1, 1)}

\* the lists calc_all_paths may return: up to MaxRSPaths distinct candidates
calc_all_paths(sx, sy, syaw, gx, gy, gyaw) ==
    LET C == RSCandidates(sx, sy, syaw, gx, gy, gyaw)
    IN  {l \in UNION {[1..n -> C] : n \in 0..MaxRSPaths} :
            \A i, j \in 1..Len(l) : i # j => l[i] # l[j]}

----------------------------------------------------------------------------
(* analytic expansion *)

RECURSIVE rs_distance_cost(_, _)
rs_distance_cost(lengths, i) ==
    IF i > Len(lengths) THEN 0
    ELSE (IF lengths[i] >= 0 THEN Fixed(1)
          ELSE Metres(Abs(lengths[i])) * BACKWARD_COST)
         + rs_distance_cost(lengths, i + 1)

RECURSIVE rs_gear_cost(_, _)
rs_gear_cost(lengths, i) ==
    IF i > Len(lengths) - 1 THEN 0
    ELSE (IF lengths[i] * lengths[i + 1] < 0 THEN Fixed(GEAR_COST) ELSE 0)
         + rs_gear_cost(lengths, i + 1)

calc_rs_path_cost(rspath) ==
    rs_distance_cost(rspath.lengths, 1) + rs_gear_cost(rspath.lengths, 1)

\* the checked samples of an RS path are collision free
RSPathFree(path, P) ==
    ~is_collision(EveryKth(path.x, COLLISION_CHECK_STEP),
                  EveryKth(path.y, COLLISION_CHECK_STEP),
                  EveryKth(path.yaw, COLLISION_CHECK_STEP), P)

\* pq after puts that give every path the same priority
RECURSIVE RSQueueUnpriced(_, _, _)
RSQueueUnpriced(pq, paths, i) ==
    IF i > Len(paths) THEN pq
    ELSE RSQueueUnpriced(QueuePut(pq, i, 0), paths, i + 1)

\* pq after the puts of paths[i..]
RECURSIVE RSQueue(_, _, _)
RSQueue(pq, paths, i) ==
    IF i > Len(paths) THEN pq
    ELSE RSQueue(QueuePut(pq, i, calc_rs_path_cost(paths[i])), paths, i + 1)

\* the while loop: the first popped path whose checked samples are free
RECURSIVE RSFirstFree(_, _, _)
RSFirstFree(pq, paths, P) ==
    IF QueueEmpty(pq) THEN NoNode
    ELSE IF RSPathFree(paths[QueueGet(pq)], P) THEN paths[QueueGet(pq)]
    ELSE RSFirstFree(HeapPopItem(pq), paths, P)

\* analystic_expantion on the list the collaborator returned: the path, or
\* NoNode for None
analystic_expantion(paths, P) ==
    IF Len(paths) = 0 THEN NoNode
    ELSE RSFirstFree(RSQueue(<< >>, paths, 1), paths, P)

\* update_node_with_analystic_expantion for a path that was found
update_node_with_analystic_expantion(n_curr, path, P) ==
    Node(n_curr.xind, n_curr.yind, n_curr.yawind, n_curr.direction,
         Interior(path.x), Interior(path.y), Interior(path.yaw),
         Interior(path.directions), 0,
         n_curr.cost + calc_rs_path_cost(path), calc_index(n_curr, P))

----------------------------------------------------------------------------
(* extract_path *)

\* the while loop: lists and cost accumulated from node down the parent chain
RECURSIVE ExtractWalk(_, _, _, _)
ExtractWalk(closed, node, nstart, acc) ==
    LET nxt == [rx |-> acc.rx \o Reverse(node.x),
                ry |-> acc.ry \o Reverse(node.y),
                ryaw |-> acc.ryaw \o Reverse(node.yaw),
                direc |-> acc.direc \o Reverse(node.directions),
                cost |-> acc.cost + node.cost,
                error |-> FALSE]
    IN  IF is_same_grid(node, nstart) THEN nxt
        ELSE IF node.pind \notin DOMAIN closed THEN [nxt EXCEPT !.error = TRUE]
        ELSE ExtractWalk(closed, closed[node.pind], nstart, nxt)

\* extract_path: the Path, or the exception it raises
extract_path(closed, ngoal, nstart) ==
    LET w == ExtractWalk(closed, ngoal, nstart,
                         [rx |-> << >>, ry |-> << >>, ryaw |-> << >>,
                          direc |-> << >>, cost |-> 0, error |-> FALSE])
        direc == Reverse(w.direc)
    IN  IF w.error THEN [kind |-> "error", what |-> "KeyError"]
        ELSE IF Len(direc) < 2 THEN [kind |-> "error", what |-> "IndexError"]
        ELSE [kind |-> "path",
              x |-> Reverse(w.rx), y |-> Reverse(w.ry), yaw |-> Reverse(w.ryaw),
              direction |-> [direc EXCEPT ![1] = direc[2]],
              cost |-> w.cost]

----------------------------------------------------------------------------
(* hybrid_astar_planning *)

GridMax == 6

\* obstacle grid points: two corners span the grid, with or without a
\* point in the middle of the upper edge
ObstacleFields ==
    LET corners == {<<0, 0>>, <<GridMax, GridMax>>}
    IN  {corners, corners \cup {<<GridMax \div 2, GridMax>>}}

\* poses in units of 0.1 m: mid grid, half a cell off, next to the lower
\* corner, and beyond either end of the grid
StartPositions ==
    {<<6, 6>>, <<5, 6>>, <<2, 2>>, <<-2, 6>>, <<XY_RESO * (GridMax + 1), 6>>}

\* start yaws: two inside (-PI, PI] and three quarters of a turn
StartYaws == {0, 2, 6}

\* goals: as the starts, and one free pose three samples away from them
GoalPositions ==
    {<<6, 6>>, <<8, 8>>, <<2, 2>>, <<6, 2>>, <<-2, 6>>,
     <<XY_RESO * (GridMax + 1), 6>>}

GoalYaws == {0, 2}

YawResos == {2, 4}

Inputs ==
    [sx : {p[1] : p \in StartPositions}, sy : {p[2] : p \in StartPositions},
     syaw : StartYaws,
     gx : {p[1] : p \in GoalPositions}, gy : {p[2] : p \in GoalPositions},
     gyaw : GoalYaws, obst : ObstacleFields, yawreso : YawResos,
     radius : {RADIUS}]

Params == calc_parameters(inp.obst, XY_RESO, inp.yawreso)

nstart ==
    Node(PyRound(inp.sx, XY_RESO), PyRound(inp.sy, XY_RESO),
         PyRound(pi_2_pi(inp.syaw), inp.yawreso), 1,
         <<inp.sx>>, <<inp.sy>>, <<inp.syaw>>, <<1>>, 0, 0, -1)

ngoal ==
    Node(PyRound(inp.gx, XY_RESO), PyRound(inp.gy, XY_RESO),
         PyRound(pi_2_pi(inp.gyaw), inp.yawreso), 1,
         <<inp.gx>>, <<inp.gy>>, <<inp.gyaw>>, <<1>>, 0, 0, -1)

Running == [kind |-> "running"]

\* a single call: nothing recorded
NoTwin == [run |-> 0]

Init ==
    /\ inp \in {i \in Inputs : <<i.sx, i.sy>> \in StartPositions
                               /\ <<i.gx, i.gy>> \in GoalPositions}
    /\ pc = "holonomic"
    /\ LET P == calc_parameters(inp.obst, XY_RESO, inp.yawreso)
           st == HolonomicInit(HolonomicGoal(inp.gx, inp.gy, P), P)
       IN  /\ h_open_set = st.open
           /\ h_closed_set = st.closed
           /\ q_priority = st.q
    /\ hmap = << >>
    /\ open_set = EmptyDict
    /\ closed_set = EmptyDict
    /\ qp = << >>
    /\ ind = -1
    /\ result = Running
    /\ twin = NoTwin

\* one iteration of the Dijkstra loop (lines 146-171)
HolonomicStep ==
    /\ pc = "holonomic"
    /\ DOMAIN h_open_set # {}
    /\ LET st == HolonomicIteration(
                     [open |-> h_open_set, closed |-> h_closed_set, q |-> q_priority],
                     Params, obstacles_map(Params, inp.radius))
       IN  /\ h_open_set' = st.open
           /\ h_closed_set' = st.closed
           /\ q_priority' = st.q
    /\ UNCHANGED <<inp, pc, hmap, open_set, closed_set, qp, ind, result>>

\* the Dijkstra loop ends and writing hmap raises IndexError (line 176)
HolonomicRaise ==
    /\ pc = "holonomic"
    /\ DOMAIN h_open_set = {}
    /\ HmapIndexError(h_closed_set, Params)
    /\ pc' = "done"
    /\ result' = [kind |-> "error", what |-> "IndexError"]
    /\ UNCHANGED <<inp, h_open_set, h_closed_set, q_priority, hmap,
                   open_set, closed_set, qp, ind>>

\* hmap is returned and pricing the start node raises IndexError (line 210)
StartRaise ==
    /\ pc = "holonomic"
    /\ DOMAIN h_open_set = {}
    /\ ~HmapIndexError(h_closed_set, Params)
    /\ HybridCostIndexError(nstart, Params)
    /\ pc' = "done"
    /\ hmap' = HmapOf(h_closed_set, Params)
    /\ open_set' = DictPut(EmptyDict, calc_index(nstart, Params), nstart)
    /\ result' = [kind |-> "error", what |-> "IndexError"]
    /\ UNCHANGED <<inp, h_open_set, h_closed_set, q_priority, closed_set, qp, ind>>

\* hmap is returned and the search is set up (lines 173-210)
StartSearch ==
    /\ pc = "holonomic"
    /\ DOMAIN h_open_set = {}
    /\ ~HmapIndexError(h_closed_set, Params)
    /\ ~HybridCostIndexError(nstart, Params)
    /\ pc' = "search"
    /\ hmap' = HmapOf(h_closed_set, Params)
    /\ open_set' = DictPut(EmptyDict, calc_index(nstart, Params), nstart)
    /\ qp' = QueuePut(<< >>, calc_index(nstart, Params),
                      calc_hybrid_cost(nstart, HmapOf(h_closed_set, Params), Params))
    /\ UNCHANGED <<inp, h_open_set, h_closed_set, q_priority, closed_set, ind, result>>

\* the loop body without the test for closed keys
ExpandOneReopen(st, n_curr, c_ind, closed, i, P, hm) ==
    LET node == calc_next_node(n_curr, c_ind, calc_motion_set[1][i],
                               calc_motion_set[2][i], P)
        node_ind == calc_index(node, P)
    IN  IF node = NoNode THEN st
        ELSE IF node_ind \notin DOMAIN st.open
             THEN [open |-> DictPut(st.open, node_ind, node),
                   qp |-> QueuePut(st.qp, node_ind, calc_hybrid_cost(node, hm, P))]
             ELSE IF st.open[node_ind].cost > node.cost
                  THEN [open |-> DictPut(st.open, node_ind, node),
                        qp |-> QueuePut(st.qp, node_ind, calc_hybrid_cost(node, hm, P))]
                  ELSE st

\* the loop body that overwrites an open node whatever its cost
ExpandOneOverwrite(st, n_curr, c_ind, closed, i, P, hm) ==
    LET node == calc_next_node(n_curr, c_ind, calc_motion_set[1][i],
                               calc_motion_set[2][i], P)
        node_ind == calc_index(node, P)
    IN  IF node = NoNode THEN st
        ELSE IF node_ind \in DOMAIN closed THEN st
        ELSE [open |-> DictPut(st.open, node_ind, node),
              qp |-> QueuePut(st.qp, node_ind, calc_hybrid_cost(node, hm, P))]

\* the loop body that overwrites an open node and leaves its queue entry
ExpandOneStale(st, n_curr, c_ind, closed, i, P, hm) ==
    LET node == calc_next_node(n_curr, c_ind, calc_motion_set[1][i],
                               calc_motion_set[2][i], P)
        node_ind == calc_index(node, P)
    IN  IF node = NoNode THEN st
        ELSE IF node_ind \in DOMAIN closed THEN st
        ELSE IF node_ind \notin DOMAIN st.open
             THEN [open |-> DictPut(st.open, node_ind, node),
                   qp |-> QueuePut(st.qp, node_ind, calc_hybrid_cost(node, hm, P))]
             ELSE IF st.open[node_ind].cost > node.cost
                  THEN [open |-> DictPut(st.open, node_ind, node), qp |-> st.qp]
                  ELSE st

\* the loop body that hands calc_next_node the popped node's parent key
ExpandOneGrandparent(st, n_curr, c_ind, closed, i, P, hm) ==
    LET node == calc_next_node(n_curr, n_curr.pind, calc_motion_set[1][i],
                               calc_motion_set[2][i], P)
        node_ind == calc_index(node, P)
    IN  IF node = NoNode THEN st
        ELSE IF node_ind \in DOMAIN closed THEN st
        ELSE IF node_ind \notin DOMAIN st.open
             THEN [open |-> DictPut(st.open, node_ind, node),
                   qp |-> QueuePut(st.qp, node_ind, calc_hybrid_cost(node, hm, P))]
             ELSE IF st.open[node_ind].cost > node.cost
                  THEN [open |-> DictPut(st.open, node_ind, node),
                        qp |-> QueuePut(st.qp, node_ind, calc_hybrid_cost(node, hm, P))]
                  ELSE st

\* body of the successor loop for primitive i (lines 230-246)
ExpandOne(st, n_curr, c_ind, closed, i, P, hm) ==
    LET node == calc_next_node(n_curr, c_ind, calc_motion_set[1][i],
                               calc_motion_set[2][i], P)
        node_ind == calc_index(node, P)
    IN  IF node = NoNode THEN st
        ELSE IF node_ind \in DOMAIN closed THEN st
        ELSE IF node_ind \notin DOMAIN st.open
             THEN [open |-> DictPut(st.open, node_ind, node),
                   qp |-> QueuePut(st.qp, node_ind, calc_hybrid_cost(node, hm, P))]
             ELSE IF st.open[node_ind].cost > node.cost
                  THEN [open |-> DictPut(st.open, node_ind, node),
                        qp |-> QueuePut(st.qp, node_ind, calc_hybrid_cost(node, hm, P))]
                  ELSE st

RECURSIVE Expand(_, _, _, _, _, _, _)
Expand(st, n_curr, c_ind, closed, i, P, hm) ==
    IF i > Len(calc_motion_set[1]) THEN st
    ELSE Expand(ExpandOne(st, n_curr, c_ind, closed, i, P, hm),
                n_curr, c_ind, closed, i + 1, P, hm)

\* the open set is empty: return None (lines 214-215)
SearchNone ==
    /\ pc = "search"
    /\ DOMAIN open_set = {}
    /\ pc' = "done"
    /\ result' = [kind |-> "none"]
    /\ UNCHANGED <<inp, h_open_set, h_closed_set, q_priority, hmap,
                   open_set, closed_set, qp, ind>>

\* an iteration that finds a Reeds-Shepp path and still runs the successor
\* loop before it breaks
SearchFoundAfterExpanding ==
    /\ pc = "search"
    /\ DOMAIN open_set # {}
    /\ LET k == QueueGet(qp)
           n_curr == open_set[k]
           closed == DictPut(closed_set, k, n_curr)
           st == Expand([open |-> DictPop(open_set, k), qp |-> HeapPopItem(qp)],
                        n_curr, k, closed, 1, Params, hmap)
       IN  \E paths \in calc_all_paths(Last(n_curr.x), Last(n_curr.y), Last(n_curr.yaw),
                                       Last(ngoal.x), Last(ngoal.y), Last(ngoal.yaw)) :
             LET path == analystic_expantion(paths, Params)
                 fnode == update_node_with_analystic_expantion(n_curr, path, Params)
                 out == extract_path(closed, fnode, nstart)
             IN  /\ path # NoNode
                 /\ ind' = k
                 /\ closed_set' = closed
                 /\ open_set' = st.open
                 /\ qp' = st.qp
                 /\ result' = out @@ [fnode |-> fnode, rspath |-> path]
                 /\ pc' = "done"
    /\ UNCHANGED <<inp, h_open_set, h_closed_set, q_priority, hmap>>

\* one iteration that finds a Reeds-Shepp path: the loop breaks and
\* extract_path runs (lines 217-227, 248)
SearchFound ==
    /\ pc = "search"
    /\ DOMAIN open_set # {}
    /\ LET k == QueueGet(qp)
           n_curr == open_set[k]
           closed == DictPut(closed_set, k, n_curr)
       IN  \E paths \in calc_all_paths(Last(n_curr.x), Last(n_curr.y), Last(n_curr.yaw),
                                       Last(ngoal.x), Last(ngoal.y), Last(ngoal.yaw)) :
             LET path == analystic_expantion(paths, Params)
                 fnode == update_node_with_analystic_expantion(n_curr, path, Params)
                 out == extract_path(closed, fnode, nstart)
             IN  /\ path # NoNode
                 /\ ind' = k
                 /\ closed_set' = closed
                 /\ open_set' = DictPop(open_set, k)
                 /\ qp' = HeapPopItem(qp)
                 /\ result' = out @@ [fnode |-> fnode, rspath |-> path]
                 /\ pc' = "done"
    /\ UNCHANGED <<inp, h_open_set, h_closed_set, q_priority, hmap>>

\* one iteration without a Reeds-Shepp path: the popped node is expanded
\* (lines 217-247)
SearchExpand ==
    /\ pc = "search"
    /\ DOMAIN open_set # {}
    /\ LET k == QueueGet(qp)
           n_curr == open_set[k]
           closed == DictPut(closed_set, k, n_curr)
       IN  \E paths \in calc_all_paths(Last(n_curr.x), Last(n_curr.y), Last(n_curr.yaw),
                                       Last(ngoal.x), Last(ngoal.y), Last(ngoal.yaw)) :
             /\ analystic_expantion(paths, Params) = NoNode
             /\ LET st == Expand([open |-> DictPop(open_set, k), qp |-> HeapPopItem(qp)],
                                 n_curr, k, closed, 1, Params, hmap)
                IN  /\ ind' = k
                    /\ closed_set' = closed
                    /\ open_set' = st.open
                    /\ qp' = st.qp
    /\ UNCHANGED <<inp, pc, h_open_set, h_closed_set, q_priority, hmap, result>>

Next ==
    \/ HolonomicStep /\ UNCHANGED twin
    \/ HolonomicRaise /\ UNCHANGED twin
    \/ StartRaise /\ UNCHANGED twin
    \/ StartSearch /\ UNCHANGED twin
    \/ SearchNone /\ UNCHANGED twin
    \/ SearchFound /\ UNCHANGED twin
    \/ SearchExpand /\ UNCHANGED twin

Spec == Init /\ [][Next]_vars

----------------------------------------------------------------------------
(* calc_holonomic_heuristic_with_obstacle on its own *)

MaxObstacles == 2

\* obstacle grid points that may be added inside the bounding box
HeuristicObstacles ==
    {<<2, 2>>, <<2, 3>>, <<3, 3>>, <<4, 1>>, <<0, 3>>, <<3, GridMax>>}

HeuristicFields ==
    {{<<0, 0>>, <<GridMax, GridMax>>} \cup s :
        s \in {t \in SUBSET HeuristicObstacles : Cardinality(t) <= MaxObstacles}}

\* goal positions in units of 0.1 m: interior cells, a cell next to a
\* corner, a position between cells, the border, and outside the grid on
\* either side
HeuristicGoals ==
    {<<6, 6>>, <<2, 2>>, <<2, 4>>, <<10, 4>>, <<5, 7>>, <<0, 6>>, <<-2, 6>>,
     <<6, -2>>, <<XY_RESO * (GridMax + 1), 6>>}

\* inflation radii: half a cell, one cell, and the radius of the planner
HeuristicRadii == {XY_RESO \div 2, XY_RESO, RADIUS}

HeuristicInputs ==
    {[sx |-> 6, sy |-> 6, syaw |-> 0, gx |-> g[1], gy |-> g[2], gyaw |-> 0,
      obst |-> f, yawreso |-> 2, radius |-> r] :
        g \in HeuristicGoals, f \in HeuristicFields, r \in HeuristicRadii}

HeuristicInit ==
    /\ inp \in HeuristicInputs
    /\ pc = "holonomic"
    /\ LET P == calc_parameters(inp.obst, XY_RESO, inp.yawreso)
           st == HolonomicInit(HolonomicGoal(inp.gx, inp.gy, P), P)
       IN  /\ h_open_set = st.open
           /\ h_closed_set = st.closed
           /\ q_priority = st.q
    /\ hmap = << >>
    /\ open_set = EmptyDict
    /\ closed_set = EmptyDict
    /\ qp = << >>
    /\ ind = -1
    /\ result = Running
    /\ twin = NoTwin

\* the Dijkstra loop ends and hmap is returned (lines 173-178)
HeuristicReturn ==
    /\ pc = "holonomic"
    /\ DOMAIN h_open_set = {}
    /\ ~HmapIndexError(h_closed_set, Params)
    /\ pc' = "done"
    /\ hmap' = HmapOf(h_closed_set, Params)
    /\ result' = [kind |-> "hmap"]
    /\ UNCHANGED <<inp, h_open_set, h_closed_set, q_priority,
                   open_set, closed_set, qp, ind, twin>>

HeuristicNext ==
    \/ HolonomicStep /\ UNCHANGED twin
    \/ HolonomicRaise /\ UNCHANGED twin
    \/ HeuristicReturn

SpecHeuristic == HeuristicInit /\ [][HeuristicNext]_vars

----------------------------------------------------------------------------
(* outcome of a call *)

Returned == pc = "done"

ReturnedPath == pc = "done" /\ result.kind = "path"

\* C1: every call ends with a Path (after a Reeds-Shepp success) or with
\* None (after the open set emptied); there is no third outcome.
C1_PathOrNone == Returned => result.kind \in {"path", "none"}

----------------------------------------------------------------------------
(* closed set *)

\* some primitive applied to the node expanded last leads to a closed key
SuccessorHitsClosed ==
    /\ pc = "search"
    /\ ind \in DOMAIN closed_set
    /\ \E i \in 1..Len(calc_motion_set[1]) :
         LET node == calc_next_node(closed_set[ind], ind, calc_motion_set[1][i],
                                    calc_motion_set[2][i], Params)
         IN  node # NoNode /\ calc_index(node, Params) \in DOMAIN closed_set \ {ind}

\* C2: a key moved into the closed set is never expanded again: an iteration
\* pops a key that is not closed yet, closed nodes are never overwritten, and
\* the open and closed key sets stay disjoint.
C2_ClosedNeverReexpanded ==
    [][/\ \A k \in DOMAIN closed_set :
            k \in DOMAIN closed_set' /\ closed_set'[k] = closed_set[k]
       /\ closed_set' # closed_set =>
            /\ ind' \notin DOMAIN closed_set
            /\ DOMAIN closed_set' = DOMAIN closed_set \cup {ind'}
       /\ DOMAIN open_set' \cap DOMAIN closed_set' = {}]_vars

C2_Witness == SuccessorHitsClosed /\ Cardinality(DOMAIN closed_set) >= 3

----------------------------------------------------------------------------
(* queue and open set *)

\* C3: whenever an iteration starts, the priority queue holds exactly the
\* keys of the open set, once each: in the lattice search (qp) and in the
\* holonomic Dijkstra (q_priority); so a pop finds an entry whenever the
\* open set is non-empty and the popped key is in the open set.
C3_QueueMirrorsOpen ==
    /\ pc = "search" =>
         /\ QueueKeys(qp) = DOMAIN open_set
         /\ Len(qp) = Cardinality(DOMAIN open_set)
         /\ DOMAIN open_set # {} => QueueGet(qp) \in DOMAIN open_set
    /\ pc = "holonomic" =>
         /\ {e[2] : e \in q_priority} = DOMAIN h_open_set
         /\ Cardinality(q_priority) = Cardinality(DOMAIN h_open_set)
         /\ DOMAIN h_open_set # {} => HeapMin(q_priority)[2] \in DOMAIN h_open_set

C3_Witness ==
    /\ pc = "search"
    /\ Len(qp) >= 3
    /\ Cardinality(DOMAIN closed_set) >= 2
    /\ Cardinality(DOMAIN h_closed_set) >= 3

----------------------------------------------------------------------------
(* collisions *)

\* C4: every sample of a returned Path is collision free, the samples the
\* search never handed to is_collision and the start sample included.
C4_EverySampleFree ==
    ReturnedPath =>
        \A i \in 1..Len(result.x) :
            ~PoseCollides(result.x[i], result.y[i], result.yaw[i], Params)

\* the start or the goal cell lies outside the grid spanned by the obstacles
EndpointOutsideGrid ==
    \E n \in {nstart, ngoal} :
        \/ n.xind < Params.minx \/ n.xind > Params.maxx
        \/ n.yind < Params.miny \/ n.yind > Params.maxy

\* the footprint at the start or the goal pose collides
EndpointInCollision ==
    \/ PoseCollides(inp.sx, inp.sy, inp.syaw, Params)
    \/ PoseCollides(inp.gx, inp.gy, inp.gyaw, Params)

\* C5: with the start or goal outside the grid, or in collision, the call
\* returns None: no exception and no Path.
C5_BadEndpointsGiveNone ==
    (Returned /\ (EndpointOutsideGrid \/ EndpointInCollision)) =>
        result.kind = "none"

----------------------------------------------------------------------------
(* costs *)

\* C9: the cost of a returned Path is the accumulated g-cost of the
\* Reeds-Shepp terminal node.
C9_PathCostIsTerminalCost ==
    ReturnedPath => result.cost = result.fnode.cost

\* cost of the segment into node n from its parent p, as the cost model
\* states it
C10_Segment(p, n) ==
    (IF n.direction < 0 THEN Metres(2 * XY_RESO) * BACKWARD_COST
     ELSE Metres(2 * XY_RESO))
    + (IF n.direction # p.direction THEN Fixed(GEAR_COST) ELSE 0)
    + Fixed(ANGULAR_VELOCITY_CHANGE_COST) * Abs(p.steer - n.steer)

\* sum of the segment costs on the parent chain from the root to closed key k
RECURSIVE C10_ChainCost(_)
C10_ChainCost(k) ==
    IF closed_set[k].pind \notin DOMAIN closed_set THEN 0
    ELSE C10_ChainCost(closed_set[k].pind)
         + C10_Segment(closed_set[closed_set[k].pind], closed_set[k])

\* C10: the cost of every closed node is the sum of the segment costs along
\* its parent chain, the root costing 0.
C10_ClosedCostIsChainSum ==
    \A k \in DOMAIN closed_set :
        /\ closed_set[k].cost = C10_ChainCost(k)
        /\ closed_set[k].pind \notin DOMAIN closed_set =>
             k = calc_index(nstart, Params) /\ closed_set[k].cost = 0

\* a closed node two segments from the root, reached in reverse
C10_Witness ==
    \E k \in DOMAIN closed_set :
        /\ closed_set[k].pind \in DOMAIN closed_set
        /\ closed_set[closed_set[k].pind].pind \in DOMAIN closed_set
        /\ closed_set[k].direction = -1
        /\ closed_set[closed_set[k].pind].direction = 1

----------------------------------------------------------------------------
(* holonomic heuristic *)

\* grid cell of the goal
GoalCell == <<PyRound(inp.gx, XY_RESO), PyRound(inp.gy, XY_RESO)>>

\* cells that have an entry in hmap
GridCells ==
    {<<x, y>> : x \in Params.minx..(Params.maxx - 1),
                y \in Params.miny..(Params.maxy - 1)}

Blocked(c) ==
    \E o \in inp.obst :
        ((o[1] - c[1]) * (o[1] - c[1]) + (o[2] - c[2]) * (o[2] - c[2]))
            * XY_RESO * XY_RESO <= inp.radius * inp.radius

OnBorder(c) ==
    \/ c[1] = Params.minx \/ c[1] = Params.maxx
    \/ c[2] = Params.miny \/ c[2] = Params.maxy

\* cells a path of the 8-connected grid may pass through
Passable == {c \in GridCells : ~OnBorder(c) /\ ~Blocked(c)}

\* cost of the move between 8-neighbours a and b
MoveCost(a, b) == IF a[1] = b[1] \/ a[2] = b[2] THEN 1000 ELSE 1414

\* the 8 cells around c
Neighbours(c) ==
    {<<c[1] + dx, c[2] + dy>> : dx \in -1..1, dy \in -1..1} \ {c}

\* Bellman-Ford from the goal cell: d after relaxing every cell until
\* nothing changes
RECURSIVE ShortestFrom(_)
ShortestFrom(d) ==
    LET nd == [c \in DOMAIN d |->
                 IF c = GoalCell THEN 0
                 ELSE SetMin({d[c]} \cup
                             {IF d[b] < Inf THEN d[b] + MoveCost(b, c) ELSE Inf :
                                 b \in Neighbours(c) \cap DOMAIN d})]
    IN  IF nd = d THEN d ELSE ShortestFrom(nd)

\* cost of the cheapest path from the goal cell to every passable cell, Inf
\* where there is none
ShortestPathCost ==
    ShortestFrom([c \in Passable \cup {GoalCell} |-> IF c = GoalCell THEN 0 ELSE Inf])

HmapReturned == hmap # << >>

\* C6: the Dijkstra computes shortest-path costs: a cell is closed with
\* the cost of the cheapest 8-connected path from the goal cell through
\* passable cells, and the returned hmap holds that cost at every cell
\* reachable from the goal.
C6_HmapIsShortestPathCost ==
    LET d == ShortestPathCost
    IN  /\ \A k \in DOMAIN h_closed_set :
             LET c == <<h_closed_set[k].x, h_closed_set[k].y>>
             IN  c \in DOMAIN d /\ h_closed_set[k].cost = d[c]
        /\ HmapReturned =>
             \A c \in DOMAIN d \cap GridCells :
                 d[c] < Inf =>
                     hmap[c[1] - Params.minx][c[2] - Params.miny] = d[c]

\* the Dijkstra has lowered the cost of an open cell, whose heap entry
\* keeps the older cost, and goes on to return an hmap in which a cell costs
\* more than the obstacle-free route to it
StalePriority ==
    \E e \in q_priority :
        e[2] \in DOMAIN h_open_set /\ h_open_set[e[2]].cost < e[1]

C6_Witness ==
    /\ pc = "holonomic"
    /\ StalePriority
    /\ Cardinality(DOMAIN h_closed_set) >= 3

\* C7: in the returned hmap the goal cell holds 0, every other cell that is
\* blocked, on the border or unreachable from the goal holds +infinity, and
\* the rest hold finite positive costs; relaxation never puts a blocked
\* cell into the Dijkstra open or closed set.
C7_HmapValues ==
    /\ HmapReturned =>
         LET d == ShortestPathCost
         IN  \A c \in GridCells :
                 LET h == hmap[c[1] - Params.minx][c[2] - Params.miny]
                 IN  IF c = GoalCell THEN h = 0
                     ELSE IF Blocked(c) \/ OnBorder(c) \/ d[c] = Inf THEN h = Inf
                     ELSE 0 < h /\ h < Inf
    /\ \A n \in {h_open_set[k] : k \in DOMAIN h_open_set}
                \cup {h_closed_set[k] : k \in DOMAIN h_closed_set} :
         n.pind # -1 => ~Blocked(<<n.x, n.y>>)

\* the denser fields with the bounding box of the field of the call
DenserFields ==
    {inp.obst \cup s : s \in (SUBSET HeuristicObstacles) \ {{}}} \ {inp.obst}

\* C8: adding obstacles inside the same bounding box never lowers an entry
\* of hmap.
C8_MoreObstaclesNeverLower ==
    HmapReturned =>
        \A field \in DenserFields :
            LET P == calc_parameters(field, XY_RESO, inp.yawreso)
                closed == calc_holonomic_heuristic_with_obstacle(
                              inp.gx, inp.gy, P, inp.radius)
            IN  /\ ~HmapIndexError(closed, P)
                /\ \A x \in DOMAIN hmap : \A y \in DOMAIN hmap[x] :
                       HmapOf(closed, P)[x][y] >= hmap[x][y]

\* a returned hmap with a finite entry that an added obstacle raises
C8_Witness ==
    /\ HmapReturned
    /\ \E field \in DenserFields :
         LET P == calc_parameters(field, XY_RESO, inp.yawreso)
             denser == HmapOf(calc_holonomic_heuristic_with_obstacle(
                                  inp.gx, inp.gy, P, inp.radius), P)
         IN  \E x \in DOMAIN hmap : \E y \in DOMAIN hmap[x] :
                 hmap[x][y] < Inf /\ denser[x][y] > hmap[x][y]

----------------------------------------------------------------------------
(* short paths *)

\* extract_path ran: the search ended with a Reeds-Shepp terminal node
Extracted == Returned /\ "fnode" \in DOMAIN result

\* C11: with start and goal in the same cell and yaw bin the call returns a
\* Path without error, and extract_path never fails on a reconstructed
\* sequence of fewer than 2 samples.
C11_ShortPathsHandled ==
    /\ (Returned /\ is_same_grid(nstart, ngoal)) => result.kind = "path"
    /\ Extracted => result.kind = "path"

----------------------------------------------------------------------------
(* two calls on the same arguments *)

\* what a caller can compare between two calls after a step
Observed ==
    [pc |-> pc, ind |-> ind, open_set |-> open_set,
     closed_set |-> closed_set, result |-> result]

\* the Reeds-Shepp path the analytic expansion settled on in a step, if any
Shortcut(obs) ==
    IF "rspath" \in DOMAIN obs.result THEN obs.result.rspath ELSE NoNode

\* the arguments of the two calls: every start and goal position, one
\* start yaw and one yaw resolution
TwoRunsInputs ==
    {i \in Inputs : /\ <<i.sx, i.sy>> \in StartPositions
                    /\ <<i.gx, i.gy>> \in GoalPositions
                    /\ i.syaw = 0
                    /\ i.yawreso = 2}

TwoRunsInit ==
    /\ inp \in TwoRunsInputs
    /\ pc = "holonomic"
    /\ LET P == calc_parameters(inp.obst, XY_RESO, inp.yawreso)
           st == HolonomicInit(HolonomicGoal(inp.gx, inp.gy, P), P)
       IN  /\ h_open_set = st.open
           /\ h_closed_set = st.closed
           /\ q_priority = st.q
    /\ hmap = << >>
    /\ open_set = EmptyDict
    /\ closed_set = EmptyDict
    /\ qp = << >>
    /\ ind = -1
    /\ result = Running
    /\ twin = [run |-> 1,
               log |-> <<[pc |-> "holonomic", ind |-> -1, open_set |-> EmptyDict,
                          closed_set |-> EmptyDict, result |-> Running]>>,
               pos |-> 1]

\* a step of the first call, recorded
FirstRun(Step) ==
    /\ twin.run = 1
    /\ Step
    /\ twin' = [twin EXCEPT !.log = Append(@, Observed')]

\* the first call has returned: the second call starts on the same arguments
SecondCall ==
    /\ twin.run = 1
    /\ pc = "done"
    /\ pc' = "holonomic"
    /\ LET st == HolonomicInit(HolonomicGoal(inp.gx, inp.gy, Params), Params)
       IN  /\ h_open_set' = st.open
           /\ h_closed_set' = st.closed
           /\ q_priority' = st.q
    /\ hmap' = << >>
    /\ open_set' = EmptyDict
    /\ closed_set' = EmptyDict
    /\ qp' = << >>
    /\ ind' = -1
    /\ result' = Running
    /\ twin' = [twin EXCEPT !.run = 2]
    /\ UNCHANGED inp

\* a step of the second call, the collaborator answering as it did at this
\* step of the first call
SecondRun(Step) ==
    /\ twin.run = 2
    /\ twin.pos < Len(twin.log)
    /\ Step
    /\ Shortcut(Observed') = Shortcut(twin.log[twin.pos + 1])
    /\ twin' = [twin EXCEPT !.pos = @ + 1]

TwoRunsNext ==
    \/ FirstRun(HolonomicStep)
    \/ FirstRun(HolonomicRaise)
    \/ FirstRun(StartRaise)
    \/ FirstRun(StartSearch)
    \/ FirstRun(SearchNone)
    \/ FirstRun(SearchFound)
    \/ FirstRun(SearchExpand)
    \/ SecondCall
    \/ SecondRun(HolonomicStep)
    \/ SecondRun(HolonomicRaise)
    \/ SecondRun(StartRaise)
    \/ SecondRun(StartSearch)
    \/ SecondRun(SearchNone)
    \/ SecondRun(SearchFound)
    \/ SecondRun(SearchExpand)

SpecTwoRuns == TwoRunsInit /\ [][TwoRunsNext]_vars

----------------------------------------------------------------------------
(* yaw range *)

YawInRange(yaw) == \A i \in 1..Len(yaw) : -PI < yaw[i] /\ yaw[i] <= PI

\* C13: every yaw of a returned Path and of a node in the open or closed
\* set, the root built from the caller's start yaw included, lies in
\* (-PI, PI].
C13_YawInRange ==
    /\ \A k \in DOMAIN open_set : YawInRange(open_set[k].yaw)
    /\ \A k \in DOMAIN closed_set : YawInRange(closed_set[k].yaw)
    /\ ReturnedPath => YawInRange(result.yaw)

----------------------------------------------------------------------------
(* trajectory lists *)

EqualLengths(x, y, yaw, directions) ==
    Len(x) = Len(y) /\ Len(y) = Len(yaw) /\ Len(yaw) = Len(directions)

\* C14: the x, y, yaw and direction sequences of a returned Path have one
\* length, and so have the four trajectory lists of every node of the
\* search and of the Reeds-Shepp terminal node.
C14_EqualLengths ==
    /\ \A n \in {open_set[k] : k \in DOMAIN open_set}
                \cup {closed_set[k] : k \in DOMAIN closed_set} :
         EqualLengths(n.x, n.y, n.yaw, n.directions)
    /\ Extracted =>
         EqualLengths(result.fnode.x, result.fnode.y, result.fnode.yaw,
                      result.fnode.directions)
    /\ ReturnedPath =>
         EqualLengths(result.x, result.y, result.yaw, result.direction)

\* a returned Path made of the root, a successor segment and a Reeds-Shepp
\* segment
C14_Witness ==
    /\ ReturnedPath
    /\ Len(result.fnode.x) >= 1
    /\ result.fnode.pind # calc_index(nstart, Params)
    /\ Len(result.x) >= 4

----------------------------------------------------------------------------
(* TractorTrailerModel.dynamics (model/tractor_trailer_model.py) *)

MaxStates == 7

\* the model as configured (BaseModel.__init__, TractorTrailerModel.__init__)
\* and the sizes (rows, columns) of the state and input handed to dynamics
DynamicsInputs ==
    [nx : 3..MaxStates, nu : {2, 3}, trailer_based_model : BOOLEAN,
     state_size : (3..MaxStates) \X {1, 2}, input_size : (1..3) \X {1, 2}]

\* dynamics: the exception, or the number of rows of the derivative that
\* cs.vertcat(*state_dot) returns
dynamics(model, state_size, input_size) ==
    IF state_size # <<model.nx, 1>> THEN [kind |-> "exception"]
    ELSE IF input_size # <<model.nu, 1>> THEN [kind |-> "exception"]
    ELSE IF state_size[1] = 6 THEN [kind |-> "derivative", rows |-> 6]
    ELSE IF state_size[1] = 4 /\ model.trailer_based_model
         THEN [kind |-> "derivative", rows |-> 4]
    ELSE IF state_size[1] = 4 /\ ~model.trailer_based_model
         THEN [kind |-> "derivative", rows |-> 4]
    ELSE [kind |-> "derivative", rows |-> 0]

DynamicsInit ==
    /\ inp \in DynamicsInputs
    /\ pc = "dynamics"
    /\ h_open_set = EmptyDict
    /\ h_closed_set = EmptyDict
    /\ q_priority = {}
    /\ hmap = << >>
    /\ open_set = EmptyDict
    /\ closed_set = EmptyDict
    /\ qp = << >>
    /\ ind = -1
    /\ result = Running
    /\ twin = NoTwin

\* one call of dynamics
DynamicsCall ==
    /\ pc = "dynamics"
    /\ pc' = "done"
    /\ result' = dynamics(inp, inp.state_size, inp.input_size)
    /\ UNCHANGED <<inp, h_open_set, h_closed_set, q_priority, hmap,
                   open_set, closed_set, qp, ind, twin>>

DynamicsNext == DynamicsCall

SpecDynamics == DynamicsInit /\ [][DynamicsNext]_vars

\* C15: when the state does not match the configured model (its size is not
\* (num_states, 1), or num_states is neither 4 nor 6), or the input size is
\* not (num_inputs, 1), dynamics raises and returns no derivative.
C15_MismatchRaises ==
    (/\ Returned
     /\ \/ inp.state_size # <<inp.nx, 1>>
        \/ inp.nx \notin {4, 6}
        \/ inp.input_size # <<inp.nu, 1>>)
    => result.kind = "exception"

----------------------------------------------------------------------------
(* successors and the open set *)

\* the successors calc_next_node gives for node n stored under key k
Successors(n, k) ==
    {calc_next_node(n, k, calc_motion_set[1][i], calc_motion_set[2][i], Params) :
        i \in 1..Len(calc_motion_set[1])} \ {NoNode}

\* the step is an iteration that expands the popped node
ExpansionBatch == pc = "search" /\ pc' = "search" /\ closed_set' # closed_set

\* C16: a successor whose key is closed changes nothing, one whose key is in
\* neither set is inserted into open and queued, one whose key is open
\* replaces the stored node only when its g is strictly lower: the g stored
\* for a key that stays open never increases, and after an expansion batch it
\* is the minimum of the g it had before and the g of the successors the batch
\* generated for that key.
C16_OpenCostIsMinimum ==
    [][/\ \A key \in DOMAIN open_set \cap DOMAIN open_set' :
            open_set'[key].cost <= open_set[key].cost
       /\ ExpansionBatch =>
            LET k == QueueGet(qp)
                succ == Successors(open_set[k], k)
                kept == DOMAIN open_set \ {k}
                keys == kept \cup {calc_index(s, Params) : s \in succ}
                cands(key) ==
                    {s \in succ : calc_index(s, Params) = key}
                    \cup (IF key \in kept THEN {open_set[key]} ELSE {})
            IN  /\ DOMAIN open_set' = keys \ DOMAIN closed_set'
                /\ \A key \in DOMAIN open_set' :
                     /\ open_set'[key] \in cands(key)
                     /\ open_set'[key].cost = SetMin({s.cost : s \in cands(key)})
                     /\ key \in QueueKeys(qp')
                     /\ (key \in kept /\ open_set'[key] # open_set[key])
                            => open_set'[key].cost < open_set[key].cost]_vars

\* an open node that the last batch stored in place of a dearer node which an
\* earlier expansion had generated for the same key
C16_Witness ==
    /\ pc = "search"
    /\ ind \in DOMAIN closed_set
    /\ \E key \in DOMAIN open_set :
         /\ open_set[key].pind = ind
         /\ \E c \in DOMAIN closed_set \ {ind} :
              \E s \in Successors(closed_set[c], c) :
                 /\ calc_index(s, Params) = key
                 /\ s.cost > open_set[key].cost


\* C17: when an iteration starts, the priority queued for every open key is
\* g + H_COST * hmap of the node now stored under that key, and the key that
\* qp.get() returns has the least such f of all open nodes.
C17_PriorityIsHybridCost ==
    pc = "search" =>
        /\ \A k \in DOMAIN open_set :
             /\ k \in QueueKeys(qp)
             /\ QueuePriority(qp, k) = calc_hybrid_cost(open_set[k], hmap, Params)
        /\ DOMAIN open_set # {} =>
             \A k \in DOMAIN open_set :
                calc_hybrid_cost(open_set[QueueGet(qp)], hmap, Params)
                    <= calc_hybrid_cost(open_set[k], hmap, Params)

\* an iteration starts with the cheapest of several open nodes at the head of
\* the queue, after a batch that replaced an open node and its priority
C17_Witness ==
    /\ pc = "search"
    /\ Len(qp) >= 3
    /\ \E k \in DOMAIN open_set :
         calc_hybrid_cost(open_set[QueueGet(qp)], hmap, Params)
             < calc_hybrid_cost(open_set[k], hmap, Params)
    /\ \E key \in DOMAIN open_set :
         /\ open_set[key].pind = ind
         /\ \E c \in DOMAIN closed_set \ {ind} :
              \E s \in Successors(closed_set[c], c) :
                 /\ calc_index(s, Params) = key
                 /\ calc_hybrid_cost(s, hmap, Params) > QueuePriority(qp, key)


----------------------------------------------------------------------------
(* the returned path and the search tree *)

\* C18: extract_path walks the parent chain from the terminal node down to
\* and including the root and emits the segments from root to terminal, so
\* the first sample of every returned Path is the start pose, also when the
\* Reeds-Shepp path is found from the start node in the first iteration.
C18_FirstSampleIsStart ==
    ReturnedPath =>
        /\ Len(result.x) >= 1
        /\ result.x[1] = inp.sx
        /\ result.y[1] = inp.sy
        /\ result.yaw[1] = inp.syaw


\* key of the root of the search tree
RootKey == calc_index(nstart, Params)

\* following parent keys from key k reaches the root through closed nodes
\* without meeting a key of seen or any key twice
RECURSIVE ReachesRoot(_, _)
ReachesRoot(k, seen) ==
    IF k \in seen \/ k \notin DOMAIN closed_set THEN FALSE
    ELSE IF k = RootKey THEN closed_set[k].pind = -1
    ELSE ReachesRoot(closed_set[k].pind, seen \cup {k})

\* C19: the search graph is a tree rooted at the start node: every node in
\* the open or closed set other than the root has its parent key in the
\* closed set, the parent keys lead to the root without repeating a key, and
\* so the walk of extract_path never looks up a missing key.
C19_SearchTree ==
    /\ \A k \in DOMAIN closed_set \ {RootKey} :
         ReachesRoot(closed_set[k].pind, {k})
    /\ \A k \in DOMAIN open_set \ {RootKey} :
         ReachesRoot(open_set[k].pind, {k})
    /\ \A k \in (DOMAIN open_set \cup DOMAIN closed_set) \cap {RootKey} :
         (IF k \in DOMAIN open_set THEN open_set[k] ELSE closed_set[k]) = nstart
    /\ Extracted =>
         /\ result.fnode.pind \in DOMAIN closed_set
         /\ ReachesRoot(result.fnode.pind, {})
    /\ Returned /\ result.kind = "error" => result.what # "KeyError"

\* a Path extracted through two closed nodes above the root, with further
\* nodes left in the open set
C19_Witness ==
    /\ ReturnedPath
    /\ result.fnode.pind # RootKey
    /\ closed_set[result.fnode.pind].pind # RootKey
    /\ DOMAIN open_set # {}


\* the step is an iteration in which the analytic expansion succeeds
ShortcutIteration == pc = "search" /\ pc' = "done" /\ "fnode" \in DOMAIN result'

\* C20: the analytic expansion from the popped node comes before its
\* successors: an iteration expands the popped node only when the expansion
\* found no path, and when it finds one the loop ends in that iteration with
\* no successor inserted into open and with a terminal node whose parent key
\* is the popped node's key, which is in the closed set.
C20_ShortcutEndsIteration ==
    [][/\ ShortcutIteration =>
            LET k == QueueGet(qp)
            IN  /\ ind' = k
                /\ result'.fnode.pind = k
                /\ k \in DOMAIN closed_set'
                /\ closed_set'[k] = open_set[k]
                /\ DOMAIN open_set' = DOMAIN open_set \ {k}
                /\ \A j \in DOMAIN open_set' : open_set'[j] = open_set[j]
                /\ QueueKeys(qp') = QueueKeys(qp) \ {k}
       /\ ExpansionBatch =>
            LET n_curr == open_set[QueueGet(qp)]
            IN  \E paths \in calc_all_paths(
                        Last(n_curr.x), Last(n_curr.y), Last(n_curr.yaw),
                        Last(ngoal.x), Last(ngoal.y), Last(ngoal.yaw)) :
                   analystic_expantion(paths, Params) = NoNode]_vars

\* the search ended on a shortcut from a node that has successors which are
\* neither closed nor open
C20_Witness ==
    /\ Extracted
    /\ result.fnode.pind = ind
    /\ Cardinality(DOMAIN closed_set) >= 2
    /\ \E s \in Successors(closed_set[ind], ind) :
         calc_index(s, Params) \notin DOMAIN closed_set \cup DOMAIN open_set


----------------------------------------------------------------------------
(* analytic expansion and the Reeds-Shepp cost *)

\* the lists the collaborator may return for the node stored under key k
PathListsFrom(n) ==
    calc_all_paths(Last(n.x), Last(n.y), Last(n.yaw),
                   Last(ngoal.x), Last(ngoal.y), Last(ngoal.yaw))

\* positions of the candidates whose checked samples are collision free
FreeCandidates(paths) ==
    {i \in 1..Len(paths) : RSPathFree(paths[i], Params)}

\* C21: analystic_expantion returns, among the candidates whose checked
\* samples are collision free, one of minimum calc_rs_path_cost, and returns
\* None exactly when the list is empty or every candidate collides.
C21_CheapestFreeCandidate ==
    (pc = "search" /\ DOMAIN open_set # {}) =>
        \A paths \in PathListsFrom(open_set[QueueGet(qp)]) :
            LET r == analystic_expantion(paths, Params)
                free == FreeCandidates(paths)
            IN  /\ (r = NoNode) <=> (free = {})
                /\ free # {} =>
                     /\ r \in {paths[i] : i \in free}
                     /\ \A i \in free :
                          calc_rs_path_cost(r) <= calc_rs_path_cost(paths[i])

\* the search ended on a path that analystic_expantion preferred to a dearer
\* collision-free candidate listed before it
C21_Witness ==
    /\ Extracted
    /\ \E paths \in PathListsFrom(closed_set[ind]) :
         /\ Len(paths) = 2
         /\ FreeCandidates(paths) = {1, 2}
         /\ paths[2] = result.rspath
         /\ analystic_expantion(paths, Params) = result.rspath
         /\ calc_rs_path_cost(paths[1]) > calc_rs_path_cost(paths[2])


\* the cost the segments would have with every segment priced by its length
RECURSIVE LengthPricedCost(_, _)
LengthPricedCost(lengths, i) ==
    IF i > Len(lengths) THEN 0
    ELSE (IF lengths[i] >= 0 THEN Metres(Abs(lengths[i]))
          ELSE Metres(Abs(lengths[i])) * BACKWARD_COST)
         + (IF i < Len(lengths) /\ lengths[i] * lengths[i + 1] < 0
            THEN Fixed(GEAR_COST) ELSE 0)
         + LengthPricedCost(lengths, i + 1)

\* C22: calc_rs_path_cost is the sum over the segments of |len| for
\* len >= 0 and of |len| * BACKWARD_COST for len < 0, plus GEAR_COST for every
\* two consecutive segments whose lengths have opposite sign.
C22_RsCostByLength ==
    (pc = "search" /\ DOMAIN open_set # {}) =>
        \A paths \in PathListsFrom(open_set[QueueGet(qp)]) :
            \A i \in 1..Len(paths) :
                calc_rs_path_cost(paths[i]) = LengthPricedCost(paths[i].lengths, 1)


----------------------------------------------------------------------------
(* grid indices *)

\* the nodes of the open and closed sets that calc_next_node built
SuccessorNodes ==
    {n \in {open_set[k] : k \in DOMAIN open_set}
           \cup {closed_set[k] : k \in DOMAIN closed_set} : n.pind # -1}

\* the cell is strictly inside the grid, the yaw index within its range and
\* the hmap indices of calc_hybrid_cost within the table
InsideGrid(n) ==
    /\ Params.minx < n.xind /\ n.xind < Params.maxx
    /\ Params.miny < n.yind /\ n.yind < Params.maxy
    /\ Params.minyaw <= n.yawind /\ n.yawind <= Params.maxyaw
    /\ 0 <= n.xind - Params.minx /\ n.xind - Params.minx < Params.xw
    /\ 0 <= n.yind - Params.miny /\ n.yind - Params.miny < Params.yw
    /\ ~HybridCostIndexError(n, Params)

\* C23: every node calc_next_node returns, and so every non-root node of the
\* open and closed sets, has its cell strictly inside the grid and its yaw
\* index between minyaw and maxyaw, so calc_hybrid_cost reads hmap inside
\* its bounds for these nodes.
C23_SuccessorsInsideGrid ==
    /\ \A n \in SuccessorNodes : InsideGrid(n)
    /\ (pc = "search" /\ DOMAIN open_set # {}) =>
         \A s \in Successors(open_set[QueueGet(qp)], QueueGet(qp)) : InsideGrid(s)

\* nodes were built next to the border of the grid and at both ends of the
\* yaw indices in use
C23_Witness ==
    /\ pc = "search"
    /\ \E n \in SuccessorNodes :
         \/ n.xind \in {Params.minx + 1, Params.maxx - 1}
         \/ n.yind \in {Params.miny + 1, Params.maxy - 1}
    /\ \E n, m \in SuccessorNodes : n.yawind < 0 /\ m.yawind > 0


----------------------------------------------------------------------------
(* QueuePrior on its own: any sequence of put and get *)

MaxQueueOps == 4

QueueItems == {1, 2, 3}

QueuePriorities == {1000, 2000}

\* qp is the queue, open_set gives for every queued item the number of the
\* put that queued it, ind counts the puts
QueueInit ==
    /\ inp = [items |-> QueueItems, priorities |-> QueuePriorities]
    /\ pc = "queue"
    /\ h_open_set = EmptyDict
    /\ h_closed_set = EmptyDict
    /\ q_priority = {}
    /\ hmap = << >>
    /\ open_set = EmptyDict
    /\ closed_set = EmptyDict
    /\ qp = << >>
    /\ ind = 0
    /\ result = Running
    /\ twin = NoTwin

\* put(item, priority)
QueuePriorPut ==
    /\ pc = "queue"
    /\ ind < MaxQueueOps
    /\ \E item \in inp.items, priority \in inp.priorities :
         /\ qp' = QueuePut(qp, item, priority)
         /\ open_set' = DictPut(open_set, item, ind)
    /\ ind' = ind + 1
    /\ UNCHANGED <<inp, pc, h_open_set, h_closed_set, q_priority, hmap,
                   closed_set, result, twin>>

\* get() on a queue that is not empty; result keeps the item returned and
\* the queue it was taken from
QueuePriorGet ==
    /\ pc = "queue"
    /\ ~QueueEmpty(qp)
    /\ result' = [kind |-> "got", item |-> QueueGet(qp), queue |-> qp,
                  puts |-> open_set]
    /\ qp' = HeapPopItem(qp)
    /\ open_set' = DictPop(open_set, QueueGet(qp))
    /\ UNCHANGED <<inp, pc, h_open_set, h_closed_set, q_priority, hmap,
                   closed_set, ind, twin>>

QueueNext == QueuePriorPut \/ QueuePriorGet

SpecQueue == QueueInit /\ [][QueueNext]_vars

\* C24: when several queued keys share the minimum priority, get() returns
\* the one of them that was put first.
C24_TiesByInsertionOrder ==
    result.kind = "got" =>
        LET q == result.queue
            least == SetMin({q[i][1] : i \in 1..Len(q)})
            ties == {q[i][2] : i \in {j \in 1..Len(q) : q[j][1] = least}}
        IN  /\ result.item \in ties
            /\ \A k \in ties : result.puts[result.item] <= result.puts[k]


\* the node's indices are the rounded indices of the last sample of its
\* own trajectory segment
IndexOfLastSample(n) ==
    /\ Len(n.x) >= 1 /\ Len(n.y) >= 1 /\ Len(n.yaw) >= 1
    /\ n.xind = PyRound(Last(n.x), Params.xyreso)
    /\ n.yind = PyRound(Last(n.y), Params.xyreso)
    /\ n.yawind = PyRound(Last(n.yaw), Params.yawreso)

\* C25: every node the search creates, the successors built by
\* calc_next_node and the terminal node built by
\* update_node_with_analystic_expantion, has the rounded index of the last
\* sample of its own trajectory segment as its discrete index.
C25_IndexOfLastSample ==
    /\ \A n \in SuccessorNodes : IndexOfLastSample(n)
    /\ Extracted => IndexOfLastSample(result.fnode)


----------------------------------------------------------------------------
(* calc_index and calc_holonomic_index on their own *)

MaxWidth == 3

\* grids given by two obstacle points at opposite corners
IndexInputs ==
    {[obst |-> {<<minx, miny>>, <<minx + w, miny + h>>}, yawreso |-> r] :
        minx \in {-1, 0}, miny \in {0, 1}, w \in 1..MaxWidth,
        h \in 1..MaxWidth, r \in YawResos}

\* the index triples of the cells of the grid
GridTriples ==
    {[xind |-> c[1], yind |-> c[2], yawind |-> c[3]] :
        c \in (Params.minx..(Params.maxx - 1)) \X (Params.miny..(Params.maxy - 1))
              \X (Params.minyaw..Params.maxyaw)}

IndexInit ==
    /\ inp \in IndexInputs
    /\ pc = "index"
    /\ h_open_set = EmptyDict
    /\ h_closed_set = EmptyDict
    /\ q_priority = {}
    /\ hmap = << >>
    /\ open_set = EmptyDict
    /\ closed_set = EmptyDict
    /\ qp = << >>
    /\ ind = -1
    /\ result = Running
    /\ twin = NoTwin

\* the two keys of one cell, with the cells of the grid that get the same key
IndexCell ==
    /\ pc = "index"
    /\ \E t \in GridTriples :
         LET key == calc_index(t, Params)
             hkey == calc_holonomic_index([x |-> t.xind, y |-> t.yind], Params)
         IN  result' =
                [kind |-> "keys", cell |-> t, key |-> key, hkey |-> hkey,
                 same |-> {u \in GridTriples : calc_index(u, Params) = key},
                 hsame |-> {<<u.xind, u.yind>> : u \in
                     {v \in GridTriples :
                        calc_holonomic_index([x |-> v.xind, y |-> v.yind], Params)
                            = hkey}}]
    /\ pc' = "done"
    /\ UNCHANGED <<inp, h_open_set, h_closed_set, q_priority, hmap,
                   open_set, closed_set, qp, ind, twin>>

IndexNext == IndexCell

SpecIndex == IndexInit /\ [][IndexNext]_vars

\* C26: calc_index is injective on the index triples of in-grid cells
\* (minx <= xind < maxx, miny <= yind < maxy, minyaw <= yawind <= maxyaw), and
\* calc_holonomic_index is injective on the in-grid (x, y) cells.
C26_KeysInjective ==
    result.kind = "keys" =>
        /\ result.same = {result.cell}
        /\ result.hsame = {<<result.cell.xind, result.cell.yind>>}

\* a cell off the lower edges of a grid that is not square and does not
\* start at the origin
C26_Witness ==
    /\ result.kind = "keys"
    /\ Params.xw # Params.yw
    /\ Params.minx # 0 /\ Params.miny # 0
    /\ result.cell.xind > Params.minx
    /\ result.cell.yind > Params.miny
    /\ result.cell.yawind > Params.minyaw


----------------------------------------------------------------------------
(* TractorTrailerModel: the two pose conversions, on headings that are     *)
(* multiples of a quarter turn and with whole lengths                      *)

MaxLength == 3

QuarterTurns == {0, 2, 4, 6}

\* a model with four states, its lengths, and a tractor-based state
PoseInputs ==
    [nx : {4}, length_front : 1..MaxLength, length_back : 1..MaxLength,
     x1 : {0, 1}, y1 : {0}, theta1 : QuarterTurns, gamma : QuarterTurns]

\* compute_trailer_pose_from_tractor_pose on state (x1, y1, theta1, gamma)
compute_trailer_pose_from_tractor_pose(model, state) ==
    LET x1 == state[1]
        y1 == state[2]
        theta1 == state[3]
        gamma == state[4]
        theta2 == theta1 + gamma
        x2 == x1 - model.length_front * Cos(theta1) - model.length_back * Cos(theta2)
        y2 == y1 - model.length_front * Sin(theta1) - model.length_back * Sin(theta2)
    IN  <<x2, y2, theta2>>

\* compute_tractor_pose_from_trailer_pose on state (x2, y2, theta2, gamma)
compute_tractor_pose_from_trailer_pose(model, state) ==
    LET x2 == state[1]
        y2 == state[2]
        theta2 == state[3]
        gamma == state[4]
        theta1 == theta2 - gamma
        x1 == x2 + model.length_front * Cos(theta2) + model.length_back * Cos(theta1)
        y1 == y2 + model.length_front * Sin(theta2) + model.length_back * Sin(theta1)
    IN  <<x1, y1, theta1>>

PoseInit ==
    /\ inp \in PoseInputs
    /\ pc = "tractor"
    /\ h_open_set = EmptyDict
    /\ h_closed_set = EmptyDict
    /\ q_priority = {}
    /\ hmap = << >>
    /\ open_set = EmptyDict
    /\ closed_set = EmptyDict
    /\ qp = << >>
    /\ ind = -1
    /\ result = Running
    /\ twin = NoTwin

\* the trailer pose of the tractor-based state
PoseToTrailer ==
    /\ pc = "tractor"
    /\ pc' = "trailer"
    /\ result' = [kind |-> "pose",
                  pose |-> compute_trailer_pose_from_tractor_pose(
                               inp, <<inp.x1, inp.y1, inp.theta1, inp.gamma>>)]
    /\ UNCHANGED <<inp, h_open_set, h_closed_set, q_priority, hmap,
                   open_set, closed_set, qp, ind, twin>>

\* the tractor pose of the trailer pose just computed, with the same gamma
PoseToTractor ==
    /\ pc = "trailer"
    /\ pc' = "done"
    /\ result' = [kind |-> "pose",
                  pose |-> compute_tractor_pose_from_trailer_pose(
                               inp, <<result.pose[1], result.pose[2],
                                      result.pose[3], inp.gamma>>)]
    /\ UNCHANGED <<inp, h_open_set, h_closed_set, q_priority, hmap,
                   open_set, closed_set, qp, ind, twin>>

PoseNext == PoseToTrailer \/ PoseToTractor

SpecPose == PoseInit /\ [][PoseNext]_vars

\* C27: with four states and any lengths the two conversions are mutually
\* inverse: the trailer pose of (x1, y1, theta1, gamma), fed back with the
\* same gamma, gives (x1, y1, theta1) again, for every gamma.
C27_PoseRoundTrip ==
    Returned => result.pose = <<inp.x1, inp.y1, inp.theta1>>

====
